---------------------------- MODULE Spec2Model ----------------------------
(***************************************************************************)
(* A model of machine.py: Machine instances that keep a Lamport clock,     *)
(* listen on a TCP port, drain an inbound queue once per tick, and send    *)
(* their clock to peers.  Each Machine has a main thread (start, main_loop,*)
(* shutdown), a listener thread (listen_for_connections) and one handler   *)
(* thread per accepted connection (handle_incoming_connection).            *)
(*                                                                         *)
(* system_time (time.time()) is left out of the log records; a byte stream *)
(* is a sequence of one-character strings.                                 *)
(***************************************************************************)
EXTENDS Integers, Sequences, FiniteSets, TLC

VARIABLES
    instances,        \* the Machine objects constructed for the run
    peer_addresses,   \* [m] self.peer_addresses: sequence of ports
    clock_rate,       \* [m] self.clock_rate
    local_clock,      \* [m] self.local_clock
    incoming_queue,   \* [m] self.incoming_queue: FIFO of [ts, sent, seq];
                      \* ts is the timestamp put, sent (history) the value
                      \* a Machine transmitted in the line it came from,
                      \* seq (history) the number of this put() among all
    log_file,         \* [m] the records written to self.log_file
    log_open,         \* [m] self.log_file is not closed
    sock_open,        \* [m] self.server_socket is bound and not closed
    running,          \* [m] self.running
    pc,               \* [m] position of the main thread
    ticks,            \* [m] iterations of main_loop completed
    old_clock,        \* [m] handle_receive's local old_clock
    msg_timestamp,    \* [m] handle_receive's local msg_timestamp
    size_after_get,   \* [m] (history) the queue's size when get() returned
    listener,         \* [m] position of the listener thread
    backlog,          \* [m] connections made and not yet accepted
    handlers,         \* [m] connections being read by a handler thread:
                      \* [data, sent, yielded]; data is the bytes not yet
                      \* read, sent (history) the value a Machine wrote as
                      \* its one line, yielded (history) the put() calls
                      \* made so far for that line
    attempts,         \* [m] the connection attempts of the last send_message
    clients,          \* connections made so far by outside clients
    puts,             \* [m] (history) put() calls made on the queue
    gets,             \* [m] (history) get() calls that have returned
    stopper,          \* [m] position of a thread that stops m from outside
    log_at_stop       \* [m] (history) the records in the log when running
                      \* was cleared from outside

\* fixed at construction
config == << instances, peer_addresses, clock_rate >>

\* handle_receive's frame, and the history of its get()
locals == << old_clock, msg_timestamp, size_after_get >>

vars == << instances, peer_addresses, clock_rate, local_clock, incoming_queue,
           log_file, log_open, sock_open, running, pc, ticks, old_clock,
           msg_timestamp, size_after_get, listener, backlog, handlers,
           attempts, clients, puts, gets, stopper, log_at_stop >>

----------------------------------------------------------------------------
(* Bounds of the model. *)

\* main_loop's duration ends after at most this many ticks of a machine
MaxTicks == 2
\* connections (queued or being read) a machine holds at one time
MaxConns == 1
\* connections that outside clients make in a run
MaxClients == 1
\* calls made on a machine that is driven method by method
MaxCalls == 3
\* connections that producers make to a machine that only receives
MaxProducers == 2

----------------------------------------------------------------------------
(* Configuration.  Machine m listens on port m.  LivePort is a listener     *)
(* that is no Machine of the run: it accepts and the bytes leave the model. *)
(* DeadPort has no listener: a connect to it is refused.                    *)

Machines == {1, 2}

Port(m) == m

LivePort == 8

DeadPort == 9

\* the peer lists a lone machine is run with: 0, 1 and 2 peers
LonePeers == { << >>, <<LivePort>>, <<DeadPort, LivePort>> }

\* the recipient lists send_message is called with directly: none, one, two
CallRecipients == { << >>, <<LivePort>>, <<DeadPort, LivePort>> }

\* the peer table of a pair of machines
PairPeers == [m \in Machines |-> IF m = 1 THEN <<Port(2)>> ELSE <<Port(1)>>]

\* random.randint(1, 6): the slowest and the fastest rate (the rate sets only
\* the length of the sleep between two ticks)
ClockRates == {1, 6}

\* random.randint(1, 10)
Draws == 1..10

NL == "\n"

Digits == <<"0", "1", "2", "3", "4", "5", "6", "7", "8", "9">>

\* a byte that no UTF-8 text holds, such as 0xff
InvalidByte == "xFF"

\* what an outside client writes to a connection before closing it
ClientPayloads ==
    { <<"1", "2", NL, "7">>,
      <<"x", NL, "3">> }

\* what each producer writes to a machine that only receives
ProducerPayloads == { <<"3", NL, "4">>, <<"5">>, <<InvalidByte, NL, "6">> }

----------------------------------------------------------------------------
(* Text: f"{n}\n", decode('utf-8'), strip(), split('\n'), int(line). *)

\* data.decode('utf-8') raises no UnicodeDecodeError
Decodes(data) == \A i \in 1..Len(data) : data[i] # InvalidByte

Max(a, b) == IF a >= b THEN a ELSE b

RECURSIVE ToStr(_)
\* str(n) for n >= 0
ToStr(n) ==
    IF n < 10 THEN <<Digits[n + 1]>>
    ELSE Append(ToStr(n \div 10), Digits[(n % 10) + 1])

\* f"{self.local_clock}\n".encode('utf-8')
Encode(n) == Append(ToStr(n), NL)

IsSpace(c) == c = NL

IsDigit(c) == \E i \in 1..10 : Digits[i] = c

DigitVal(c) == (CHOOSE i \in 1..10 : Digits[i] = c) - 1

RECURSIVE LStrip(_)
LStrip(s) ==
    IF s # << >> /\ IsSpace(Head(s)) THEN LStrip(Tail(s)) ELSE s

RECURSIVE RStrip(_)
RStrip(s) ==
    IF s # << >> /\ IsSpace(s[Len(s)]) THEN RStrip(SubSeq(s, 1, Len(s) - 1))
    ELSE s

\* str.strip()
Strip(s) == RStrip(LStrip(s))

RECURSIVE SplitFrom(_, _)
\* the lines of s after the line cur, which is being read
SplitFrom(s, cur) ==
    IF s = << >> THEN <<cur>>
    ELSE IF Head(s) = NL THEN <<cur>> \o SplitFrom(Tail(s), << >>)
    ELSE SplitFrom(Tail(s), Append(cur, Head(s)))

\* str.split('\n')
Split(s) == SplitFrom(s, << >>)

\* int(line) raises no ValueError
IsInt(line) == line # << >> /\ \A i \in 1..Len(line) : IsDigit(line[i])

RECURSIVE ParseInt(_)
\* int(line)
ParseInt(line) ==
    IF Len(line) = 1 THEN DigitVal(line[1])
    ELSE 10 * ParseInt(SubSeq(line, 1, Len(line) - 1)) + DigitVal(line[Len(line)])

RECURSIVE ParseLines(_)
\* the for loop of handle_incoming_connection: the timestamps put, in order
ParseLines(lines) ==
    IF lines = << >> THEN << >>
    ELSE LET line == Strip(Head(lines))
         IN  (IF IsInt(line) THEN <<ParseInt(line)>> ELSE << >>)
             \o ParseLines(Tail(lines))

\* the timestamps one recv() of data puts on the queue
ParseData(data) == ParseLines(Split(Strip(data)))

----------------------------------------------------------------------------
(* Clock rules and log records. *)

\* a receive rule that takes the maximum and forgets the + 1
ReceiveClockNoIncrement(clock, ts) == Max(clock, ts)

\* a receive rule that adopts the timestamp and forgets the local clock
ReceiveClockNoMax(clock, ts) == ts + 1

\* handle_receive: max(self.local_clock, msg_timestamp) + 1
ReceiveClock(clock, ts) == Max(clock, ts) + 1

\* an event that forgets to advance the clock
EventClockStale(clock) == clock

\* send_message, internal_event: self.local_clock += 1
EventClock(clock) == clock + 1

ReceiveRecord(old, new, queue_len) ==
    [event |-> "RECEIVE", old_clock |-> old, new_clock |-> new,
     queue_len |-> queue_len]

SendRecord(old, new, recipients) ==
    [event |-> "SEND", old_clock |-> old, new_clock |-> new,
     recipients |-> recipients]

InternalRecord(old, new) ==
    [event |-> "INTERNAL", old_clock |-> old, new_clock |-> new]

\* a write that puts the record ahead of those written before
LogWriteInFront(log, record) == <<record>> \o log

\* self.log_file.write(json.dumps(event_data) + "\n")
LogWrite(log, record) == Append(log, record)

----------------------------------------------------------------------------
(* Machine.__init__ *)

\* the state once the machines ms are constructed; no object exists for
\* the others
Constructed(ms) ==
    /\ instances = ms
    /\ clock_rate \in [Machines -> ClockRates \cup {0}]
    /\ \A m \in Machines : clock_rate[m] = 0 <=> m \notin ms
    /\ local_clock = [m \in Machines |-> 0]
    /\ incoming_queue = [m \in Machines |-> << >>]
    /\ log_file = [m \in Machines |-> << >>]
    /\ log_open = [m \in Machines |-> m \in ms]
    /\ sock_open = [m \in Machines |-> m \in ms]
    /\ running = [m \in Machines |-> m \in ms]
    /\ pc = [m \in Machines |-> IF m \in ms THEN "created" ELSE "none"]
    /\ ticks = [m \in Machines |-> 0]
    /\ old_clock = [m \in Machines |-> 0]
    /\ msg_timestamp = [m \in Machines |-> 0]
    /\ size_after_get = [m \in Machines |-> 0]
    /\ listener = [m \in Machines |-> "none"]
    /\ backlog = [m \in Machines |-> << >>]
    /\ handlers = [m \in Machines |-> << >>]
    /\ attempts = [m \in Machines |-> << >>]
    /\ clients = 0
    /\ puts = [m \in Machines |-> 0]
    /\ gets = [m \in Machines |-> 0]
    /\ stopper = [m \in Machines |-> "idle"]
    /\ log_at_stop = [m \in Machines |-> 0]

\* one machine, run alone
Init ==
    /\ Constructed({1})
    /\ \E peers \in LonePeers :
          peer_addresses = [m \in Machines |-> IF m = 1 THEN peers ELSE << >>]

\* two machines, each the other's peer, one at the slowest and one at the
\* fastest rate
InitPair ==
    /\ Constructed(Machines)
    /\ clock_rate = [m \in Machines |-> IF m = 1 THEN 1 ELSE 6]
    /\ peer_addresses = PairPeers

----------------------------------------------------------------------------
(* The main thread. *)

\* start(): launch the listener thread and enter main_loop
Start(m) ==
    /\ pc[m] = "created"
    /\ listener' = [listener EXCEPT ![m] = "accepting"]
    /\ pc' = [pc EXCEPT ![m] = "loop"]
    /\ UNCHANGED << config, local_clock, incoming_queue, log_file, log_open,
                    sock_open, running, ticks, locals, backlog, handlers,
                    attempts, clients,
                    puts, gets, stopper,
                    log_at_stop >>

\* a while condition that tests the elapsed time only
LoopCheckIgnoresRunning(m) ==
    /\ pc[m] = "loop"
    /\ \E elapsed \in BOOLEAN :
          /\ ticks[m] >= MaxTicks => elapsed
          /\ IF ~elapsed
             THEN /\ pc' = [pc EXCEPT ![m] = "tick"]
                  /\ UNCHANGED running
             ELSE /\ pc' = [pc EXCEPT ![m] = "shutdown"]
                  /\ running' = [running EXCEPT ![m] = FALSE]
    /\ UNCHANGED << config, local_clock, incoming_queue, log_file, log_open,
                    sock_open, ticks, locals, listener, backlog, handlers,
                    attempts, clients, puts, gets, stopper, log_at_stop >>

\* main_loop: the while condition, then time.sleep(tick_interval), or the
\* loop's exit and self.running = False
LoopCheck(m) ==
    /\ pc[m] = "loop"
    /\ \E elapsed \in BOOLEAN :
          /\ ticks[m] >= MaxTicks => elapsed
          /\ IF running[m] /\ ~elapsed
             THEN /\ pc' = [pc EXCEPT ![m] = "tick"]
                  /\ UNCHANGED running
             ELSE /\ pc' = [pc EXCEPT ![m] = "shutdown"]
                  /\ running' = [running EXCEPT ![m] = FALSE]
    /\ UNCHANGED << config, local_clock, incoming_queue, log_file, log_open,
                    sock_open, ticks, locals, listener, backlog, handlers,
                    attempts, clients,
                    puts, gets, stopper,
                    log_at_stop >>

\* main_loop: time.sleep(tick_interval) returns and incoming_queue.empty()
\* is read
QueueCheck(m) ==
    /\ pc[m] = "tick"
    /\ pc' = [pc EXCEPT ![m] = IF incoming_queue[m] # << >> THEN "receive"
                               ELSE "no_message"]
    /\ UNCHANGED << config, local_clock, incoming_queue, log_file, log_open,
                    sock_open, running, ticks, locals, listener, backlog,
                    handlers, attempts, clients,
                    puts, gets, stopper,
                    log_at_stop >>

\* a get() that takes the newest timestamp
HandleReceiveNewest(m) ==
    /\ pc[m] = "receive"
    /\ incoming_queue[m] # << >>
    /\ LET q  == incoming_queue[m]
           ts == q[Len(q)].ts
       IN  /\ incoming_queue' = [incoming_queue EXCEPT
                                   ![m] = SubSeq(q, 1, Len(q) - 1)]
           /\ msg_timestamp' = [msg_timestamp EXCEPT ![m] = ts]
           /\ old_clock' = [old_clock EXCEPT ![m] = local_clock[m]]
           /\ local_clock' = [local_clock EXCEPT ![m] = ReceiveClock(@, ts)]
           /\ size_after_get' = [size_after_get EXCEPT ![m] = Len(q) - 1]
    /\ gets' = [gets EXCEPT ![m] = @ + 1]
    /\ pc' = [pc EXCEPT ![m] = "receive_log"]
    /\ UNCHANGED << config, log_file, log_open, sock_open, running, ticks,
                    listener, backlog, handlers, attempts, clients,
                    puts, stopper,
                    log_at_stop >>

\* handle_receive, lines 163-165: get() the oldest timestamp, which blocks
\* while the queue is empty, and apply the receive rule
HandleReceive(m) ==
    /\ pc[m] = "receive"
    /\ incoming_queue[m] # << >>
    /\ LET ts == Head(incoming_queue[m]).ts
       IN  /\ incoming_queue' = [incoming_queue EXCEPT ![m] = Tail(@)]
           /\ msg_timestamp' = [msg_timestamp EXCEPT ![m] = ts]
           /\ old_clock' = [old_clock EXCEPT ![m] = local_clock[m]]
           /\ local_clock' = [local_clock EXCEPT ![m] = ReceiveClock(@, ts)]
    /\ size_after_get' = [size_after_get EXCEPT
                            ![m] = Len(Tail(incoming_queue[m]))]
    /\ gets' = [gets EXCEPT ![m] = @ + 1]
    /\ pc' = [pc EXCEPT ![m] = "receive_log"]
    /\ UNCHANGED << config, log_file, log_open, sock_open, running, ticks,
                    listener, backlog, handlers, attempts, clients,
                    puts, stopper,
                    log_at_stop >>

\* handle_receive: queue_len = self.incoming_queue.qsize()
QueueLen(q) == Len(q)

\* handle_receive, lines 167-176: read qsize() and write the RECEIVE
\* record; write() on a closed file raises ValueError, which leaves
\* main_loop and start()
LogReceive(m) ==
    /\ pc[m] = "receive_log"
    /\ IF log_open[m]
       THEN /\ log_file' = [log_file EXCEPT ![m] =
                   LogWrite(@, ReceiveRecord(old_clock[m], local_clock[m],
                                             QueueLen(incoming_queue[m])))]
            /\ ticks' = [ticks EXCEPT ![m] = @ + 1]
            /\ pc' = [pc EXCEPT ![m] = "loop"]
       ELSE /\ pc' = [pc EXCEPT ![m] = "raised"]
            /\ UNCHANGED << log_file, ticks >>
    /\ old_clock' = [old_clock EXCEPT ![m] = 0]
    /\ msg_timestamp' = [msg_timestamp EXCEPT ![m] = 0]
    /\ UNCHANGED << config, local_clock, incoming_queue, log_open,
                    sock_open, running, size_after_get, listener, backlog,
                    handlers, attempts, clients,
                    puts, gets, stopper,
                    log_at_stop >>

\* a broadcast draw that does not look at the number of peers
DispatchBroadcastUnguarded(r, peers) ==
    IF r = 3 THEN [kind |-> "SEND", recipients |-> peers]
    ELSE [kind |-> "INTERNAL", recipients |-> << >>]

\* a draw of 2 that sends to the first peer, as a draw of 1 does
DispatchFirstPeerTwice(r, peers) ==
    IF r \in {1, 2} /\ Len(peers) > 0
    THEN [kind |-> "SEND", recipients |-> <<peers[1]>>]
    ELSE IF r = 3 /\ Len(peers) > 1 THEN [kind |-> "SEND", recipients |-> peers]
    ELSE [kind |-> "INTERNAL", recipients |-> << >>]

\* handle_no_message: the recipients of the draw r, or INTERNAL
Dispatch(r, peers) ==
    IF r = 1 /\ Len(peers) > 0 THEN [kind |-> "SEND", recipients |-> <<peers[1]>>]
    ELSE IF r = 2 /\ Len(peers) > 1
         THEN [kind |-> "SEND", recipients |-> <<peers[2]>>]
    ELSE IF r = 3 /\ Len(peers) > 1 THEN [kind |-> "SEND", recipients |-> peers]
    ELSE [kind |-> "INTERNAL", recipients |-> << >>]

\* a connect to port p can succeed
Listening(p) == p = LivePort \/ \E t \in Machines : Port(t) = p /\ sock_open[t]

\* a for loop inside one try/except: the first failure ends the loop
SendAttemptsUntilFailure(recipients, ok, value) ==
    LET failed == {i \in 1..Len(recipients) : ~ok[i]}
        n == IF failed = {} THEN Len(recipients)
             ELSE CHOOSE i \in failed : \A j \in failed : i <= j
    IN  [i \in 1..n |->
            [to |-> recipients[i], data |-> Encode(value), sent |-> <<value>>,
             delivered |-> ok[i]]]

\* send_message's for loop: one connect and sendall of value per recipient,
\* each in its own try/except; ok[i] is whether the i-th one got through;
\* sent is the history of the value the line carries
SendAttempts(recipients, ok, value) ==
    [i \in 1..Len(recipients) |->
        [to |-> recipients[i], data |-> Encode(value), sent |-> <<value>>,
         delivered |-> ok[i]]]

\* the recipients the SEND record lists
LoggedRecipients(recipients, tried) == recipients

RECURSIVE Arrivals(_, _)
\* the connections that the attempts tried open at port p, in order
Arrivals(tried, p) ==
    IF tried = << >> THEN << >>
    ELSE (IF Head(tried).delivered /\ Head(tried).to = p
          THEN <<[data |-> Head(tried).data, sent |-> Head(tried).sent,
                  yielded |-> 0]>>
          ELSE << >>) \o Arrivals(Tail(tried), p)

\* an increment placed inside the for loop: one per recipient
SendClockPerRecipient(clock, recipients) == clock + Len(recipients)

\* send_message: self.local_clock += 1, ahead of the for loop
SendClock(clock, recipients) == EventClock(clock)

\* a log write placed inside the for loop: one record per recipient
SendLogPerRecipient(log, old, new, recipients, tried) ==
    log \o [i \in 1..Len(tried) |-> SendRecord(old, new, <<tried[i].to>>)]

\* send_message: the log write that follows the for loop
SendLog(log, old, new, recipients, tried) ==
    LogWrite(log, SendRecord(old, new, LoggedRecipients(recipients, tried)))

\* send_message(recipients)
SendMessage(m, recipients) ==
    \E ok \in [1..Len(recipients) -> BOOLEAN] :
        LET new   == SendClock(local_clock[m], recipients)
            tried == SendAttempts(recipients, ok, new)
        IN  /\ \A i \in 1..Len(recipients) : ok[i] => Listening(recipients[i])
            /\ \A t \in Machines :
                  Len(backlog[t]) + Len(handlers[t])
                      + Len(Arrivals(tried, Port(t))) <= MaxConns
            /\ local_clock' = [local_clock EXCEPT ![m] = new]
            /\ attempts' = [attempts EXCEPT ![m] = tried]
            /\ backlog' = [t \in Machines |->
                              backlog[t] \o Arrivals(tried, Port(t))]
            /\ log_file' = [log_file EXCEPT ![m] =
                   IF log_open[m]
                   THEN SendLog(@, local_clock[m], new, recipients, tried)
                   ELSE @]

\* internal_event()
InternalEvent(m) ==
    /\ local_clock' = [local_clock EXCEPT ![m] = EventClock(@)]
    /\ log_file' = [log_file EXCEPT ![m] =
           IF log_open[m]
           THEN LogWrite(@, InternalRecord(local_clock[m],
                                           EventClock(local_clock[m])))
           ELSE @]
    /\ UNCHANGED << attempts, backlog >>

\* handle_no_message(), reached when main_loop saw the queue empty: the
\* draw, and the whole of send_message or internal_event; their write() on
\* a closed file raises ValueError, which leaves main_loop and start()
HandleNoMessage(m) ==
    /\ pc[m] = "no_message"
    /\ \E r \in Draws :
          LET d == Dispatch(r, peer_addresses[m])
          IN  IF d.kind = "SEND" THEN SendMessage(m, d.recipients)
              ELSE InternalEvent(m)
    /\ ticks' = [ticks EXCEPT ![m] = IF log_open[m] THEN @ + 1 ELSE @]
    /\ pc' = [pc EXCEPT ![m] = IF log_open[m] THEN "loop" ELSE "raised"]
    /\ UNCHANGED << config, incoming_queue, log_open, sock_open, running,
                    locals, listener, handlers, clients,
                    puts, gets, stopper,
                    log_at_stop >>

\* a shutdown() that leaves the log file open
ShutdownKeepsLogOpen(m) ==
    /\ pc[m] = "shutdown"
    /\ running' = [running EXCEPT ![m] = FALSE]
    /\ sock_open' = [sock_open EXCEPT ![m] = FALSE]
    /\ backlog' = [backlog EXCEPT ![m] = << >>]
    /\ pc' = [pc EXCEPT ![m] = "stopped"]
    /\ UNCHANGED << config, local_clock, incoming_queue, log_file, log_open,
                    ticks, locals, listener, handlers, attempts, clients,
                    puts, gets, stopper,
                    log_at_stop >>

\* start()'s call of shutdown(): clear running, close the server socket
\* (connections not yet accepted are reset) and close the log file
Shutdown(m) ==
    /\ pc[m] = "shutdown"
    /\ running' = [running EXCEPT ![m] = FALSE]
    /\ sock_open' = [sock_open EXCEPT ![m] = FALSE]
    /\ backlog' = [backlog EXCEPT ![m] = << >>]
    /\ log_open' = [log_open EXCEPT ![m] = FALSE]
    /\ pc' = [pc EXCEPT ![m] = "stopped"]
    /\ UNCHANGED << config, local_clock, incoming_queue, log_file, ticks,
                    locals, listener, handlers, attempts, clients,
                    puts, gets, stopper,
                    log_at_stop >>

----------------------------------------------------------------------------
(* The listener thread and the handler threads. *)

\* listen_for_connections: accept() returns a connection, a handler thread
\* is started for it, and the while condition finds running set (a
\* connection accepted once running is cleared is closed by its handler
\* unread: it is left in the backlog here)
Accept(m) ==
    /\ listener[m] = "accepting"
    /\ running[m]
    /\ sock_open[m]
    /\ backlog[m] # << >>
    /\ handlers' = [handlers EXCEPT ![m] = Append(@, Head(backlog[m]))]
    /\ backlog' = [backlog EXCEPT ![m] = Tail(@)]
    /\ UNCHANGED << config, local_clock, incoming_queue, log_file, log_open,
                    sock_open, running, pc, ticks, locals, listener,
                    attempts, clients, puts, gets, stopper,
                    log_at_stop >>

\* listen_for_connections: accept() raises socket.timeout after the poll
\* timeout of settimeout(1.0), the loop continues, the while condition
\* finds running set and accept() is entered again
AcceptTimeout(m) ==
    /\ listener[m] = "accepting"
    /\ running[m]
    /\ sock_open[m]
    /\ backlog[m] = << >>
    /\ listener' = [listener EXCEPT ![m] = "accepting"]
    /\ UNCHANGED << config, local_clock, incoming_queue, log_file, log_open,
                    sock_open, running, pc, ticks, locals, backlog,
                    handlers, attempts, clients, puts, gets, stopper,
                    log_at_stop >>

\* an accept() error that is taken to stop the whole machine
ListenerErrorStopsMachine(m) ==
    /\ listener[m] = "accepting"
    /\ listener' = [listener EXCEPT ![m] = "failed"]
    /\ running' = [running EXCEPT ![m] = FALSE]
    /\ UNCHANGED << config, local_clock, incoming_queue, log_file, log_open,
                    sock_open, pc, ticks, locals, backlog, handlers,
                    attempts, clients, puts, gets, stopper,
                    log_at_stop >>

\* listen_for_connections: accept() raises another exception (the socket
\* was closed, or the system refuses the accept): the error is printed to
\* stderr and the loop is left by break
ListenerError(m) ==
    /\ listener[m] = "accepting"
    /\ listener' = [listener EXCEPT ![m] = "failed"]
    /\ UNCHANGED << config, local_clock, incoming_queue, log_file, log_open,
                    sock_open, running, pc, ticks, locals, backlog,
                    handlers, attempts, clients,
                    puts, gets, stopper,
                    log_at_stop >>

\* listen_for_connections: accept() returns or times out and the while
\* condition finds running cleared
ListenerExit(m) ==
    /\ listener[m] = "accepting"
    /\ ~running[m]
    /\ listener' = [listener EXCEPT ![m] = "exited"]
    /\ UNCHANGED << config, local_clock, incoming_queue, log_file, log_open,
                    sock_open, running, pc, ticks, locals, backlog,
                    handlers, attempts, clients, puts, gets, stopper,
                    log_at_stop >>

\* the sequence s without its i-th element
Remove(s, i) == SubSeq(s, 1, i - 1) \o SubSeq(s, i + 1, Len(s))

\* conn.recv(1024): the bytes one call returns, out of those in flight
RecvSizes(data) == 1..(IF Len(data) < 1024 THEN Len(data) ELSE 1024)

\* a put() that places the entries ahead of those waiting
PutInFront(q, entries) == entries \o q

\* incoming_queue.put(timestamp), for each of entries in order
Put(q, entries) == q \o entries

\* the queue entries one recv() of data from connection c adds, after n
\* earlier put() calls
Enqueued(data, c, n) ==
    LET ts == ParseData(data)
    IN  [i \in 1..Len(ts) |-> [ts |-> ts[i], sent |-> c.sent, seq |-> n + i]]

\* handle_incoming_connection: one recv() that returns data, and the for
\* loop that puts its timestamps on the queue; after the last bytes of a
\* closed connection the next recv() returns b"" and the thread ends.  Data
\* that does not decode raises out of the while loop into the outer except:
\* the connection is closed and the thread ends, the rest unread
HandlerRecv(m, i) ==
    /\ running[m]
    /\ \E k \in RecvSizes(handlers[m][i].data) :
          LET c    == handlers[m][i]
              data == SubSeq(c.data, 1, k)
              rest == SubSeq(c.data, k + 1, Len(c.data))
          IN  IF Decodes(data)
              THEN /\ incoming_queue' = [incoming_queue EXCEPT
                             ![m] = Put(@, Enqueued(data, c, puts[m]))]
                   /\ puts' = [puts EXCEPT
                                 ![m] = @ + Len(ParseData(data))]
                   /\ handlers' = [handlers EXCEPT
                         ![m] = IF rest = << >> THEN Remove(@, i)
                                ELSE [@ EXCEPT
                                        ![i].data = rest,
                                        ![i].yielded =
                                            IF c.sent = << >> THEN @
                                            ELSE @ + Len(ParseData(data))]]
              ELSE /\ handlers' = [handlers EXCEPT ![m] = Remove(@, i)]
                   /\ UNCHANGED << incoming_queue, puts >>
    /\ UNCHANGED << config, local_clock, log_file, log_open, sock_open,
                    running, pc, ticks, locals, listener, backlog, attempts,
                    clients, gets, stopper,
                    log_at_stop >>

\* handle_incoming_connection: the while condition finds running cleared and
\* the thread ends, leaving the unread bytes
HandlerExit(m, i) ==
    /\ ~running[m]
    /\ handlers' = [handlers EXCEPT ![m] = Remove(@, i)]
    /\ UNCHANGED << config, local_clock, incoming_queue, log_file, log_open,
                    sock_open, running, pc, ticks, locals, listener,
                    backlog, attempts, clients,
                    puts, gets, stopper,
                    log_at_stop >>

\* a client that is no Machine connects to m's port, writes payload, closes
ClientConnect(m, payload) ==
    /\ clients < MaxClients
    /\ m \in instances
    /\ sock_open[m]
    /\ Len(backlog[m]) + Len(handlers[m]) < MaxConns
    /\ backlog' = [backlog EXCEPT
                     ![m] = Append(@, [data |-> payload, sent |-> << >>,
                                       yielded |-> 0])]
    /\ clients' = clients + 1
    /\ UNCHANGED << config, local_clock, incoming_queue, log_file, log_open,
                    sock_open, running, pc, ticks, locals, listener,
                    handlers, attempts,
                    puts, gets, stopper,
                    log_at_stop >>

\* a producer connects to m's port, writes payload, closes
ProducerConnect(m, payload) ==
    /\ clients < MaxProducers
    /\ m \in instances
    /\ sock_open[m]
    /\ backlog' = [backlog EXCEPT
                     ![m] = Append(@, [data |-> payload, sent |-> << >>,
                                       yielded |-> 0])]
    /\ clients' = clients + 1
    /\ UNCHANGED << config, local_clock, incoming_queue, log_file, log_open,
                    sock_open, running, pc, ticks, locals, listener,
                    handlers, attempts, puts, gets, stopper,
                    log_at_stop >>

----------------------------------------------------------------------------
(* A thread other than m's own that stops m once start() is under way: it   *)
(* clears running, and may go on through the rest of shutdown().            *)

\* shutdown(): self.running = False
StopRunning(m) ==
    /\ m \in instances
    /\ pc[m] # "created"
    /\ stopper[m] = "idle"
    /\ running' = [running EXCEPT ![m] = FALSE]
    /\ stopper' = [stopper EXCEPT ![m] = "flagged"]
    /\ log_at_stop' = [log_at_stop EXCEPT ![m] = Len(log_file[m])]
    /\ UNCHANGED << config, local_clock, incoming_queue, log_file, log_open,
                    sock_open, pc, ticks, locals, listener, backlog,
                    handlers, attempts, clients, puts, gets >>

\* shutdown(): self.server_socket.close(), inside try/except
StopCloseSocket(m) ==
    /\ stopper[m] = "flagged"
    /\ sock_open' = [sock_open EXCEPT ![m] = FALSE]
    /\ backlog' = [backlog EXCEPT ![m] = << >>]
    /\ stopper' = [stopper EXCEPT ![m] = "socket_closed"]
    /\ UNCHANGED << config, local_clock, incoming_queue, log_file, log_open,
                    running, pc, ticks, locals, listener, handlers,
                    attempts, clients, puts, gets,
                    log_at_stop >>

\* shutdown(): self.log_file.close(), and the return
StopCloseLog(m) ==
    /\ stopper[m] = "socket_closed"
    /\ log_open' = [log_open EXCEPT ![m] = FALSE]
    /\ stopper' = [stopper EXCEPT ![m] = "done"]
    /\ UNCHANGED << config, local_clock, incoming_queue, log_file,
                    sock_open, running, pc, ticks, locals, listener,
                    backlog, handlers, attempts, clients, puts, gets,
                    log_at_stop >>

----------------------------------------------------------------------------
(* A machine driven method by method, without start(), as its unit tests    *)
(* drive it.                                                                *)

\* m.send_message(recipients)
CallSendMessage(m, recipients) ==
    /\ pc[m] = "created"
    /\ Len(log_file[m]) < MaxCalls
    /\ SendMessage(m, recipients)
    /\ UNCHANGED << config, incoming_queue, log_open, sock_open, running, pc,
                    ticks, locals, listener, handlers, clients,
                    puts, gets, stopper,
                    log_at_stop >>

\* m.internal_event()
CallInternalEvent(m) ==
    /\ pc[m] = "created"
    /\ Len(log_file[m]) < MaxCalls
    /\ InternalEvent(m)
    /\ UNCHANGED << config, incoming_queue, log_open, sock_open, running, pc,
                    ticks, locals, listener, handlers, clients,
                    puts, gets, stopper,
                    log_at_stop >>

----------------------------------------------------------------------------

Next ==
    \E m \in Machines :
        \/ Start(m)
        \/ LoopCheck(m)
        \/ QueueCheck(m)
        \/ HandleReceive(m)
        \/ LogReceive(m)
        \/ HandleNoMessage(m)
        \/ Shutdown(m)
        \/ Accept(m)
        \/ AcceptTimeout(m)
        \/ ListenerExit(m)
        \/ \E i \in 1..Len(handlers[m]) : HandlerRecv(m, i)
        \/ \E i \in 1..Len(handlers[m]) : HandlerExit(m, i)
        \/ \E payload \in ClientPayloads : ClientConnect(m, payload)

Spec == Init /\ [][Next]_vars

SpecPair == InitPair /\ [][Next]_vars

\* the steps of m's main thread after start(): every sleep, connect and
\* write returns
MainStep(m) ==
    \/ LoopCheck(m)
    \/ QueueCheck(m)
    \/ HandleReceive(m)
    \/ LogReceive(m)
    \/ HandleNoMessage(m)
    \/ Shutdown(m)

\* the steps of m's listener thread that no fault causes: accept() returns
\* a connection or times out after the poll timeout
ListenerStep(m) ==
    \/ Accept(m)
    \/ AcceptTimeout(m)
    \/ ListenerExit(m)

\* both threads of every machine keep being scheduled
Fairness == \A m \in Machines : WF_vars(MainStep(m)) /\ WF_vars(ListenerStep(m))

\* a run in which accept() may fail
NextFault ==
    \/ Next
    \/ \E m \in Machines : ListenerError(m)

SpecFault == Init /\ [][NextFault]_vars

FairSpecFault == SpecFault /\ Fairness

\* a run in which a machine may be stopped from outside
NextStop ==
    \/ Next
    \/ \E m \in Machines :
          \/ StopRunning(m)
          \/ StopCloseSocket(m)
          \/ StopCloseLog(m)

SpecStop == Init /\ [][NextStop]_vars

FairSpecStop == SpecStop /\ Fairness

\* one machine without peers, which only receives
InitInbound ==
    /\ Constructed({1})
    /\ clock_rate = [m \in Machines |-> IF m = 1 THEN 1 ELSE 0]
    /\ peer_addresses = [m \in Machines |-> << >>]

\* a machine that several producers connect to
NextInbound ==
    \E m \in Machines :
        \/ Start(m)
        \/ LoopCheck(m)
        \/ QueueCheck(m)
        \/ HandleReceive(m)
        \/ LogReceive(m)
        \/ HandleNoMessage(m)
        \/ Shutdown(m)
        \/ Accept(m)
        \/ AcceptTimeout(m)
        \/ ListenerExit(m)
        \/ \E i \in 1..Len(handlers[m]) : HandlerRecv(m, i)
        \/ \E i \in 1..Len(handlers[m]) : HandlerExit(m, i)
        \/ \E payload \in ProducerPayloads : ProducerConnect(m, payload)

SpecInbound == InitInbound /\ [][NextInbound]_vars

NextCalls ==
    \E m \in Machines :
        \/ \E recipients \in CallRecipients : CallSendMessage(m, recipients)
        \/ CallInternalEvent(m)

SpecCalls == Init /\ [][NextCalls]_vars

----------------------------------------------------------------------------
(* Steps and records the properties speak of. *)

Last(s) == s[Len(s)]

TickEvents == {"RECEIVE", "SEND", "INTERNAL"}

\* the positions of log that hold a record of the given event
RecordsOf(log, event) == {i \in DOMAIN log : log[i].event = event}

\* m's main thread wakes from its sleep and reads incoming_queue.empty()
QueueCheckStep(m) == pc[m] = "tick" /\ pc'[m] # "tick"

\* a handler thread of m takes one recv() and what follows it
HandlerRecvStep(m) ==
    running[m] /\ handlers'[m] # handlers[m] /\ backlog'[m] = backlog[m]

\* a handler thread of m takes a recv() on its i-th connection: the
\* connection is gone or has fewer bytes left, the others are as before
ConnectionRecvStep(m, i) ==
    /\ HandlerRecvStep(m)
    /\ i \in DOMAIN handlers[m]
    /\ \/ handlers'[m] = Remove(handlers[m], i)
       \/ /\ Len(handlers'[m]) = Len(handlers[m])
          /\ handlers'[m][i] # handlers[m][i]

\* the lines of data that int() accepts, in order
ParsableLines(data) == SelectSeq(Split(data), LAMBDA l : IsInt(Strip(l)))

\* m is stopped: running cleared, server socket closed, log file closed
Stopped(m) == ~running[m] /\ ~sock_open[m] /\ ~log_open[m]

\* start() has been called on m
Started(m) == m \in instances /\ pc[m] # "created"

\* the lifecycle state of m: 0 INIT, 1 RUNNING, 2 STOPPING, 3 STOPPED
Lifecycle(m) ==
    IF ~Started(m) THEN 0
    ELSE IF running[m] THEN 1
    ELSE IF sock_open[m] \/ log_open[m] THEN 2
    ELSE 3

\* a statement of shutdown() is executed on m, by the main thread or by a
\* thread that stops m from outside
ShutdownStep(m) ==
    \/ pc[m] = "shutdown" /\ pc'[m] = "stopped"
    \/ stopper'[m] # stopper[m]

\* the positions of the main thread inside an iteration of main_loop
InTick == {"tick", "receive", "receive_log", "no_message"}

\* m's main thread takes handle_receive's get() and clock update
ReceiveGetStep(m) == pc[m] = "receive" /\ pc'[m] = "receive_log"

\* m's main thread writes the RECEIVE record
ReceiveLogStep(m) == pc[m] = "receive_log" /\ pc'[m] = "loop"

\* m's main thread takes handle_no_message: a SEND or an INTERNAL event
NoMessageStep(m) == pc[m] = "no_message" /\ pc'[m] = "loop"

----------------------------------------------------------------------------
(* C1: every RECEIVE sets the clock to max(clock before, dequeued           *)
(* timestamp) + 1, and the RECEIVE record written for it carries the clock  *)
(* before as old_clock and that new value as new_clock.                     *)

C1_ReceiveRule ==
    [][\A m \in Machines :
         /\ ReceiveGetStep(m) =>
              LET ts == Head(incoming_queue[m]).ts
              IN  /\ local_clock'[m] =
                       (IF local_clock[m] >= ts THEN local_clock[m] ELSE ts) + 1
                  /\ old_clock'[m] = local_clock[m]
                  /\ msg_timestamp'[m] = ts
         /\ ReceiveLogStep(m) =>
              LET rec == Last(log_file'[m])
              IN  /\ Len(log_file'[m]) = Len(log_file[m]) + 1
                  /\ rec.event = "RECEIVE"
                  /\ rec.old_clock = old_clock[m]
                  /\ rec.new_clock = local_clock'[m]
                  /\ rec.new_clock =
                       (IF rec.old_clock >= msg_timestamp[m]
                        THEN rec.old_clock ELSE msg_timestamp[m]) + 1
      ]_vars

\* a machine has logged a RECEIVE of a timestamp ahead of its clock and a
\* RECEIVE of a timestamp behind it
C1_Witness ==
    \E m \in Machines :
        \E i, j \in RecordsOf(log_file[m], "RECEIVE") :
            /\ log_file[m][i].new_clock > log_file[m][i].old_clock + 1
            /\ log_file[m][j].old_clock > 0
            /\ log_file[m][j].new_clock = log_file[m][j].old_clock + 1

----------------------------------------------------------------------------
(* C2: every SEND and every INTERNAL step adds exactly 1 to the clock, and  *)
(* the record written has new_clock = old_clock + 1.                        *)

C2_EventRule ==
    [][\A m \in Machines :
         NoMessageStep(m) =>
           LET rec == Last(log_file'[m])
           IN  /\ local_clock'[m] = local_clock[m] + 1
               /\ Len(log_file'[m]) = Len(log_file[m]) + 1
               /\ rec.event \in {"SEND", "INTERNAL"}
               /\ rec.old_clock = local_clock[m]
               /\ rec.new_clock = rec.old_clock + 1
               /\ rec.new_clock = local_clock'[m]
      ]_vars

\* a machine has logged a SEND and an INTERNAL event
C2_Witness ==
    \E m \in Machines :
        /\ RecordsOf(log_file[m], "SEND") # {}
        /\ RecordsOf(log_file[m], "INTERNAL") # {}

----------------------------------------------------------------------------
(* C3: when a machine dequeues a timestamp that came from a line another    *)
(* machine transmitted, its clock after the RECEIVE is strictly greater     *)
(* than the value transmitted.                                              *)

C3_Causality ==
    [][\A m \in Machines :
         ReceiveGetStep(m) =>
           LET entry == Head(incoming_queue[m])
           IN  entry.sent # << >> => local_clock'[m] > entry.sent[1]
      ]_vars

----------------------------------------------------------------------------
(* C4: local_clock starts at 0, is always a natural number, and no step of  *)
(* any thread decreases it.                                                 *)

C4_ClockMonotone ==
    /\ \A m \in Machines : local_clock[m] = 0
    /\ [](\A m \in Machines : local_clock[m] \in Nat)
    /\ [][\A m \in Machines : local_clock'[m] >= local_clock[m]]_vars

\* a machine whose clock is past 1 has dequeued a timestamp behind its clock
C4_Witness ==
    \E m \in Machines :
        /\ pc[m] = "receive_log"
        /\ old_clock[m] > 1
        /\ msg_timestamp[m] < old_clock[m]
        /\ local_clock[m] > old_clock[m]

----------------------------------------------------------------------------
(* C5: a machine whose start() has returned has exactly one STARTUP record  *)
(* in its log, ahead of every tick event, with a clock_rate in 1..6.        *)

C5_OneStartup ==
    \A m \in instances :
        pc[m] = "stopped" =>
            /\ Cardinality(RecordsOf(log_file[m], "STARTUP")) = 1
            /\ log_file[m][1].event = "STARTUP"
            /\ log_file[m][1].clock_rate \in 1..6

----------------------------------------------------------------------------
(* C6: a machine whose start() has returned has exactly one END record in   *)
(* its log, after every tick event, whose final_clock is the clock at the   *)
(* exit of the tick loop.                                                   *)

C6_OneEnd ==
    \A m \in instances :
        pc[m] = "stopped" =>
            /\ Cardinality(RecordsOf(log_file[m], "END")) = 1
            /\ Last(log_file[m]).event = "END"
            /\ Last(log_file[m]).final_clock = local_clock[m]

----------------------------------------------------------------------------
(* C7: every iteration of the tick loop appends exactly one record, a       *)
(* RECEIVE, a SEND or an INTERNAL: the log holds one tick event for each    *)
(* iteration completed, and nothing is appended outside an iteration.       *)

C7_OneEventPerTick ==
    \A m \in Machines :
        /\ Len(log_file[m]) = ticks[m]
        /\ \A i \in DOMAIN log_file[m] : log_file[m][i].event \in TickEvents

\* a machine has completed a tick that received and a tick that sent to two
\* recipients, one of them unreachable
C7_Witness ==
    \E m \in Machines :
        /\ ticks[m] = 2
        /\ log_file[m][1].event = "RECEIVE"
        /\ log_file[m][2].event = "SEND"
        /\ Len(log_file[m][2].recipients) = 2
        /\ \E i \in DOMAIN attempts[m] : ~attempts[m][i].delivered

----------------------------------------------------------------------------
(* C8: the queue_len of a RECEIVE record is the size of the queue right     *)
(* after that RECEIVE's dequeue.                                            *)

C8_QueueLenAfterDequeue ==
    [][\A m \in Machines :
         ReceiveLogStep(m) => Last(log_file'[m]).queue_len = size_after_get[m]
      ]_vars

----------------------------------------------------------------------------
(* C9: a send_message to 0, 1 or 2 recipients adds exactly 1 to the clock,  *)
(* and every recipient is sent one line holding that one new clock value.   *)

C9_SendIncrementsOnce ==
    [][\A m \in Machines :
         (log_file'[m] # log_file[m] /\ Last(log_file'[m]).event = "SEND") =>
           LET rec == Last(log_file'[m])
           IN  /\ local_clock'[m] = local_clock[m] + 1
               /\ rec.new_clock = local_clock'[m]
               /\ Len(attempts'[m]) = Len(rec.recipients)
               /\ \A i \in DOMAIN attempts'[m] :
                     /\ attempts'[m][i].to = rec.recipients[i]
                     /\ attempts'[m][i].sent = <<local_clock'[m]>>
                     /\ attempts'[m][i].data = Encode(local_clock'[m])
      ]_vars

\* a machine has sent to no recipient, to one and to two
C9_Witness ==
    \E m \in Machines :
        \A n \in 0..2 :
            \E i \in RecordsOf(log_file[m], "SEND") :
                Len(log_file[m][i].recipients) = n

----------------------------------------------------------------------------
(* C10: a SEND tick writes exactly one SEND record whichever of its         *)
(* connections fail: every recipient chosen is attempted, in order, the     *)
(* clock advances by 1, and the record lists all the recipients attempted.  *)

C10_SendLoggedDespiteFailures ==
    [][\A m \in Machines :
         (NoMessageStep(m) /\ Last(log_file'[m]).event = "SEND") =>
           LET rec   == Last(log_file'[m])
               peers == peer_addresses[m]
           IN  /\ Len(log_file'[m]) = Len(log_file[m]) + 1
               /\ SubSeq(log_file'[m], 1, Len(log_file[m])) = log_file[m]
               /\ local_clock'[m] = local_clock[m] + 1
               /\ rec.recipients \in {<<peers[i]>> : i \in DOMAIN peers} \cup {peers}
               /\ Len(attempts'[m]) = Len(rec.recipients)
               /\ \A i \in DOMAIN attempts'[m] :
                     attempts'[m][i].to = rec.recipients[i]
      ]_vars

\* a machine has logged a SEND whose only connection failed, then a SEND to
\* two recipients whose first connection failed and whose second got through
C10_Witness ==
    \E m \in Machines :
        /\ Len(log_file[m]) = 2
        /\ log_file[m][1].event = "SEND"
        /\ log_file[m][1].recipients = <<DeadPort>>
        /\ log_file[m][2].event = "SEND"
        /\ Len(attempts[m]) = 2
        /\ ~attempts[m][1].delivered
        /\ attempts[m][2].delivered

----------------------------------------------------------------------------
(* C11: a machine constructed with an empty peer list never logs a SEND and *)
(* never attempts an outbound connection: every record of its log is a      *)
(* RECEIVE or an INTERNAL.                                                  *)

C11_NoPeersNoSend ==
    \A m \in instances :
        peer_addresses[m] = << >> =>
            /\ RecordsOf(log_file[m], "SEND") = {}
            /\ attempts[m] = << >>
            /\ \A i \in DOMAIN log_file[m] :
                   log_file[m][i].event \in {"RECEIVE", "INTERNAL"}

\* a machine without peers has run to its end and logged a RECEIVE and an
\* INTERNAL event
C11_Witness ==
    \E m \in instances :
        /\ peer_addresses[m] = << >>
        /\ pc[m] = "stopped"
        /\ RecordsOf(log_file[m], "RECEIVE") # {}
        /\ RecordsOf(log_file[m], "INTERNAL") # {}

----------------------------------------------------------------------------
(* C14: a tick that finds the queue non-empty performs a RECEIVE, which     *)
(* takes the oldest queued timestamp and removes that one entry only; a     *)
(* SEND or INTERNAL is performed only by a tick that found the queue empty; *)
(* and handle_receive's get() never finds the queue empty, so never blocks. *)

C14_TickPrecedence ==
    /\ [](\A m \in Machines : pc[m] = "receive" => incoming_queue[m] # << >>)
    /\ [][\A m \in Machines :
            /\ QueueCheckStep(m) =>
                  IF incoming_queue[m] # << >> THEN pc'[m] = "receive"
                  ELSE pc'[m] = "no_message"
            /\ ReceiveGetStep(m) =>
                  /\ msg_timestamp'[m] = Head(incoming_queue[m]).ts
                  /\ incoming_queue'[m] = Tail(incoming_queue[m])
            /\ pc'[m] = "no_message" =>
                  \/ pc[m] = "no_message"
                  \/ QueueCheckStep(m) /\ incoming_queue[m] = << >>
            /\ (log_file'[m] # log_file[m]
                  /\ Last(log_file'[m]).event \in {"SEND", "INTERNAL"}) =>
                  pc[m] = "no_message"
         ]_vars

\* a machine whose first tick found the queue empty has, on its second
\* tick, taken the oldest of three queued timestamps and left the other two
C14_Witness ==
    \E m \in Machines :
        /\ Len(log_file[m]) = 1
        /\ log_file[m][1].event \in {"SEND", "INTERNAL"}
        /\ pc[m] = "receive_log"
        /\ msg_timestamp[m] = 1
        /\ Len(incoming_queue[m]) = 2
        /\ incoming_queue[m][1].ts = 2

----------------------------------------------------------------------------
(* C15: on a tick that found the queue empty, with n peers and draw r: r=1  *)
(* and n>=1 sends to the first peer only; r=2 and n>=2 sends to the second  *)
(* peer only; r=3 and n>=2 sends to all peers in order; any other r and n   *)
(* gives an INTERNAL event and no send.  Every SEND a machine has logged    *)
(* lists one of these three recipient lists.                                *)

C15_DispatchTable ==
    \A m \in instances :
        LET peers == peer_addresses[m]
            n     == Len(peers)
        IN  /\ \A r \in 1..10 :
                   LET d == Dispatch(r, peers)
                   IN  /\ (r = 1 /\ n >= 1) =>
                             d.kind = "SEND" /\ d.recipients = <<peers[1]>>
                       /\ (r = 2 /\ n >= 2) =>
                             d.kind = "SEND" /\ d.recipients = <<peers[2]>>
                       /\ (r = 3 /\ n >= 2) =>
                             d.kind = "SEND" /\ d.recipients = peers
                       /\ (r \in 4..10 \/ (r = 1 /\ n = 0)
                             \/ (r \in {2, 3} /\ n < 2)) =>
                             d.kind = "INTERNAL" /\ d.recipients = << >>
            /\ \A i \in RecordsOf(log_file[m], "SEND") :
                   \/ n >= 1 /\ log_file[m][i].recipients = <<peers[1]>>
                   \/ n >= 2 /\ log_file[m][i].recipients = <<peers[2]>>
                   \/ n >= 2 /\ log_file[m][i].recipients = peers

\* a machine with two peers has sent to its second peer alone, then to both
C15_Witness ==
    \E m \in instances :
        /\ Len(peer_addresses[m]) = 2
        /\ Len(log_file[m]) = 2
        /\ log_file[m][1].event = "SEND"
        /\ log_file[m][1].recipients = <<peer_addresses[m][2]>>
        /\ log_file[m][2].event = "SEND"
        /\ log_file[m][2].recipients = peer_addresses[m]

----------------------------------------------------------------------------
(* C12: a machine without peers whose queue was empty throughout has, once  *)
(* start() has returned, a log made of one STARTUP, then INTERNAL records   *)
(* only, then one END whose final_clock is the number of INTERNAL records.  *)

C12_IdleRunLog ==
    \A m \in instances :
        (/\ peer_addresses[m] = << >>
         /\ pc[m] = "stopped"
         /\ incoming_queue[m] = << >>
         /\ RecordsOf(log_file[m], "RECEIVE") = {}) =>
            LET log == log_file[m]
            IN  /\ Len(log) >= 2
                /\ log[1].event = "STARTUP"
                /\ Last(log).event = "END"
                /\ \A i \in 2..(Len(log) - 1) : log[i].event = "INTERNAL"
                /\ Last(log).final_clock =
                       Cardinality(RecordsOf(log, "INTERNAL"))

----------------------------------------------------------------------------
(* C17: a handler that has read data puts on the queue the integer of each  *)
(* line of it that parses, once each and in line order, and nothing for a   *)
(* line that does not parse; the handler goes on to the bytes that remain   *)
(* on the connection; the clock and the log do not change.                  *)

C17_ParseFailureDiscarded ==
    [][\A m \in Machines :
         HandlerRecvStep(m) =>
           \E i \in DOMAIN handlers[m] :
             \E k \in 1..Len(handlers[m][i].data) :
               LET c     == handlers[m][i]
                   kept  == ParsableLines(SubSeq(c.data, 1, k))
                   before == incoming_queue[m]
                   after  == incoming_queue'[m]
               IN  /\ Len(after) = Len(before) + Len(kept)
                   /\ SubSeq(after, 1, Len(before)) = before
                   /\ \A j \in DOMAIN kept :
                         after[Len(before) + j].ts = ParseInt(Strip(kept[j]))
                   /\ handlers'[m] =
                         IF k = Len(c.data) THEN Remove(handlers[m], i)
                         ELSE [handlers[m] EXCEPT
                                 ![i].data = SubSeq(c.data, k + 1, Len(c.data)),
                                 ![i].yielded =
                                     IF c.sent = << >> THEN c.yielded
                                     ELSE c.yielded + Len(kept)]
                   /\ local_clock'[m] = local_clock[m]
                   /\ log_file'[m] = log_file[m]
      ]_vars

----------------------------------------------------------------------------
(* C16: the queue holds, in the order of their put(), exactly the entries   *)
(* put and not yet taken; each get() takes the earliest of them, so the     *)
(* timestamps taken are, in order, the first of those put: none is          *)
(* reordered, duplicated or lost, whichever handler put it.                 *)

C16_QueueFifo ==
    /\ [](\A m \in Machines :
            /\ Len(incoming_queue[m]) = puts[m] - gets[m]
            /\ \A i \in DOMAIN incoming_queue[m] :
                   incoming_queue[m][i].seq = gets[m] + i)
    /\ [][\A m \in Machines :
            /\ ReceiveGetStep(m) =>
                  \E i \in DOMAIN incoming_queue[m] :
                      LET e == incoming_queue[m][i]
                      IN  /\ e.seq = gets[m] + 1
                          /\ msg_timestamp'[m] = e.ts
                          /\ incoming_queue'[m] =
                                SelectSeq(incoming_queue[m],
                                          LAMBDA x : x.seq # e.seq)
            /\ HandlerRecvStep(m) =>
                  LET before == incoming_queue[m]
                      after  == incoming_queue'[m]
                  IN  /\ Len(after) >= Len(before)
                      /\ SubSeq(after, 1, Len(before)) = before
                      /\ \A j \in (Len(before) + 1)..Len(after) :
                            after[j].seq = puts[m] + (j - Len(before))
         ]_vars

\* two handlers have put in turn, 3 then 5 then 4, and the first get() took
\* the 3 and left the 5 and the 4
C16_Witness ==
    \E m \in Machines :
        /\ pc[m] = "receive_log"
        /\ gets[m] = 1
        /\ msg_timestamp[m] = 3
        /\ Len(incoming_queue[m]) = 2
        /\ incoming_queue[m][1].ts = 5
        /\ incoming_queue[m][2].ts = 4

----------------------------------------------------------------------------
(* C18: an accept() error other than the poll timeout ends the listener     *)
(* loop and changes nothing else: running stays set, and every iteration    *)
(* the tick loop has begun still ends with one more record in the log.      *)
(* While running is set the listener loop ends in no other way: a poll      *)
(* timeout takes it back into accept().                                     *)

C18_ListenerFailure ==
    /\ [][\A m \in Machines :
            /\ (listener[m] = "accepting" /\ listener'[m] = "failed") =>
                  /\ running'[m] = running[m]
                  /\ pc'[m] = pc[m]
                  /\ local_clock'[m] = local_clock[m]
                  /\ log_file'[m] = log_file[m]
            /\ (listener[m] = "accepting" /\ listener'[m] # "accepting") =>
                  IF running[m] THEN listener'[m] = "failed"
                  ELSE listener'[m] \in {"exited", "failed"}
         ]_vars
    /\ [](\A m \in Machines :
            (listener[m] = "failed" /\ pc[m] \in InTick) => running[m])
    /\ \A m \in Machines :
          \A n \in 0..(MaxTicks - 1) :
              (listener[m] = "failed" /\ pc[m] \in InTick /\ ticks[m] = n)
                  ~> (/\ pc[m] = "loop"
                      /\ ticks[m] = n + 1
                      /\ Len(log_file[m]) = n + 1)

\* a machine whose listener has failed has completed all its ticks, still
\* running, with a connection waiting that no accept() will take
C18_Witness ==
    \E m \in Machines :
        /\ listener[m] = "failed"
        /\ running[m]
        /\ pc[m] = "loop"
        /\ ticks[m] = MaxTicks
        /\ Len(log_file[m]) = MaxTicks
        /\ backlog[m] # << >>

----------------------------------------------------------------------------
(* C13: a shutdown() executed on a machine that is already stopped leaves   *)
(* it stopped, with the same log, and raises nothing; and once a shutdown() *)
(* has returned the log holds an END record, wherever the listener thread   *)
(* is at that time.                                                         *)

C13_ShutdownIdempotent ==
    /\ [][\A m \in Machines :
            (Stopped(m) /\ ShutdownStep(m)) =>
                /\ ~running'[m] /\ ~sock_open'[m] /\ ~log_open'[m]
                /\ log_file'[m] = log_file[m]
                /\ pc'[m] # "raised"
         ]_vars
    /\ [](\A m \in instances :
            (pc[m] = "stopped" \/ stopper[m] = "done") =>
                RecordsOf(log_file[m], "END") # {})

----------------------------------------------------------------------------
(* C19: the lifecycle INIT, RUNNING, STOPPING, STOPPED is only ever left    *)
(* for the next state; once running is cleared no step sets it again; and a *)
(* stopped machine takes no tick: its clock and its log do not change and   *)
(* it sends nothing.                                                        *)

C19_LifecycleOneWay ==
    [][\A m \in Machines :
         /\ Lifecycle(m)' \in {Lifecycle(m), Lifecycle(m) + 1}
         /\ ~running[m] => ~running'[m]
         /\ Stopped(m) =>
               /\ local_clock'[m] = local_clock[m]
               /\ log_file'[m] = log_file[m]
               /\ attempts'[m] = attempts[m]
      ]_vars

----------------------------------------------------------------------------
(* C20: a started machine whose duration has elapsed, or whose running flag *)
(* has been cleared, eventually is stopped (running cleared, server socket  *)
(* closed, log file closed) with its listener loop ended.                   *)

C20_Termination ==
    \A m \in Machines :
        (Started(m) /\ (~running[m] \/ ticks[m] >= MaxTicks))
            ~> (Stopped(m) /\ listener[m] \in {"exited", "failed"})

\* a machine stopped from outside before it had made all its ticks has
\* returned from start(), with its listener loop left at the while condition
C20_Witness ==
    \E m \in Machines :
        /\ stopper[m] = "flagged"
        /\ ticks[m] < MaxTicks
        /\ pc[m] = "stopped"
        /\ Stopped(m)
        /\ listener[m] = "exited"

----------------------------------------------------------------------------
(* C21: the log of a machine only grows, by one record at its end per tick, *)
(* so its records are in the order the ticks ran; the first record has      *)
(* old_clock 0, every later record's old_clock is the new_clock of the      *)
(* record before it, and new_clock increases strictly along the log.        *)

C21_LogContinuity ==
    /\ [](\A m \in Machines :
            LET log == log_file[m]
            IN  /\ log # << >> => log[1].old_clock = 0
                /\ \A i \in DOMAIN log :
                       /\ log[i].event \in TickEvents
                       /\ log[i].new_clock > log[i].old_clock
                       /\ i > 1 => log[i].old_clock = log[i - 1].new_clock)
    /\ [][\A m \in Machines :
            log_file'[m] # log_file[m] =>
                /\ Len(log_file'[m]) = Len(log_file[m]) + 1
                /\ SubSeq(log_file'[m], 1, Len(log_file[m])) = log_file[m]
                /\ ticks'[m] = ticks[m] + 1
                /\ Last(log_file'[m]).new_clock = local_clock'[m]
         ]_vars

\* a machine has logged a RECEIVE that took its clock past 1, then a SEND
\* or INTERNAL event that continues from it
C21_Witness ==
    \E m \in Machines :
        /\ Len(log_file[m]) = 2
        /\ log_file[m][1].event = "RECEIVE"
        /\ log_file[m][1].new_clock > 2
        /\ log_file[m][2].event \in {"SEND", "INTERNAL"}
        /\ log_file[m][2].old_clock = log_file[m][1].new_clock

----------------------------------------------------------------------------
(* C22: every timestamp a handler puts for a connection on which a Machine  *)
(* wrote its one line is the clock value of that line, and the connection   *)
(* yields at most one queue entry, however recv() cuts the bytes.           *)

C22_MessageIntegrity ==
    [][\A m \in Machines :
         \A i \in DOMAIN handlers[m] :
           (ConnectionRecvStep(m, i) /\ handlers[m][i].sent # << >>) =>
             LET c      == handlers[m][i]
                 before == incoming_queue[m]
                 after  == incoming_queue'[m]
                 added  == SubSeq(after, Len(before) + 1, Len(after))
             IN  /\ c.yielded + Len(added) <= 1
                 /\ \A j \in DOMAIN added : added[j].ts = c.sent[1]
      ]_vars

----------------------------------------------------------------------------
(* C23: once running has been cleared from outside, the tick loop starts no *)
(* further iteration, and the log gains at most one record more than it     *)
(* held at that moment: that of the iteration already under way.            *)

C23_CooperativeStop ==
    /\ [](\A m \in Machines :
            stopper[m] # "idle" =>
                Len(log_file[m]) <= log_at_stop[m] + 1)
    /\ [][\A m \in Machines :
            /\ (stopper[m] # "idle" /\ pc[m] = "loop") => pc'[m] # "tick"
            /\ (stopper[m] # "idle" /\ log_file'[m] # log_file[m]) =>
                  pc[m] \in InTick /\ pc'[m] = "loop"
         ]_vars

\* a machine stopped from outside in the middle of its first tick has
\* logged that tick and has left the loop, with ticks still to make
C23_Witness ==
    \E m \in Machines :
        /\ stopper[m] = "flagged"
        /\ log_at_stop[m] = 0
        /\ Len(log_file[m]) = 1
        /\ ticks[m] < MaxTicks
        /\ pc[m] = "stopped"

----------------------------------------------------------------------------
(* C24: when shutdown() is called from another thread while the tick loop   *)
(* sleeps or is in mid-tick, no record is written once the log file is      *)
(* closed: the tick under way writes its record to the open log and ends    *)
(* without an error.                                                        *)

C24_NoWriteAfterClose ==
    /\ [](\A m \in Machines : pc[m] # "raised")
    /\ [][\A m \in Machines :
            (pc[m] \in {"receive_log", "no_message"} /\ pc'[m] # pc[m]) =>
                log_open[m] /\ pc'[m] = "loop"
         ]_vars

=============================================================================
